---- MODULE Spec2Model ----
(***************************************************************************)
(* Model of nginx_ssl_auto/core.py: the SSLCertificateManager pipelines    *)
(* (setup_ssl_certificate, remove_ssl_certificate) with the compensating   *)
(* _rollback, run against a host made of the sites-available conf file,    *)
(* the sites-enabled symlink, the working directory's temp_nginx.conf, the *)
(* certificates certbot holds, the tools on PATH and the configuration the *)
(* nginx daemon last loaded.  Every external command is one action; its    *)
(* exit status is an input drawn from Outcomes.                            *)
(***************************************************************************)
EXTENDS Integers, Sequences, FiniteSets, TLC

\* Number of Setup / Remove calls made one after the other on the host.
MaxCalls == 3

\* Longest string given to the domain validation.
MaxDomainLen == 6

\* Latest reading of the clock, in ticks.
MaxNow == 66

\* Longest value of an environment variable.
MaxEnvLen == 2

(***************************************************************************)
(* Domain names are sequences of one-character strings.                    *)
(***************************************************************************)
Letters == {"a", "b", "i", "o"}
Digits == {"1"}
Hyphen == "-"
Dot == "."
Newline == "\n"

\* [a-zA-Z0-9-]
IsLabelChar(c) == c \in Letters \cup Digits \cup {Hyphen}

\* [a-zA-Z]
IsLetter(c) == c \in Letters

(***************************************************************************)
(* re.match(r"^(?!-)[a-zA-Z0-9-]+(\.[a-zA-Z0-9-]+)*\.[a-zA-Z]{2,}$", s) as *)
(* the set-of-states run of the pattern's automaton:                       *)
(*   "start"  nothing read ((?!-) forbids a hyphen here)                   *)
(*   "label"  inside a [a-zA-Z0-9-]+ group                                 *)
(*   "dot"    just read a \.                                               *)
(*   "tld1"   one letter of [a-zA-Z]{2,} read                              *)
(*   "tld2"   two or more letters of [a-zA-Z]{2,} read (accepting)         *)
(***************************************************************************)
ReStep(q, c) ==
    CASE q = "start" -> IF IsLabelChar(c) /\ c # Hyphen THEN {"label"} ELSE {}
      [] q = "label" -> (IF IsLabelChar(c) THEN {"label"} ELSE {})
                        \cup (IF c = Dot THEN {"dot"} ELSE {})
      [] q = "dot"   -> (IF IsLabelChar(c) THEN {"label"} ELSE {})
                        \cup (IF IsLetter(c) THEN {"tld1"} ELSE {})
      [] q = "tld1"  -> IF IsLetter(c) THEN {"tld2"} ELSE {}
      [] q = "tld2"  -> IF IsLetter(c) THEN {"tld2"} ELSE {}
      [] OTHER       -> {}

RECURSIVE ReRun(_, _, _)
ReRun(Q, s, i) ==
    IF i > Len(s) THEN Q
    ELSE ReRun(UNION {ReStep(q, s[i]) : q \in Q}, s, i + 1)

\* Python's $ matches at the end of the string and before a final newline.
ReMatch(s) ==
    \/ "tld2" \in ReRun({"start"}, s, 1)
    \/ /\ Len(s) >= 1
       /\ s[Len(s)] = Newline
       /\ "tld2" \in ReRun({"start"}, SubSeq(s, 1, Len(s) - 1), 1)

\* re.search(r"-\.|\.-|-$", s)
ReSearchHyphenDot(s) ==
    \/ \E i \in 1..(Len(s) - 1) :
          \/ s[i] = Hyphen /\ s[i + 1] = Dot
          \/ s[i] = Dot /\ s[i + 1] = Hyphen
    \/ Len(s) >= 1 /\ s[Len(s)] = Hyphen
    \/ Len(s) >= 2 /\ s[Len(s)] = Newline /\ s[Len(s) - 1] = Hyphen

\* _validate_domain_name: {"mode": True} or the invalid-domain failure.
ValidateDomainName(s) ==
    IF ~ReMatch(s) \/ ReSearchHyphenDot(s) THEN "err_invalid_domain" ELSE "ok"

ExampleCom == <<"a", ".", "i", "o">>
HyphenExampleCom == <<"-", "a", ".", "i", "o">>
ExampleOrg == <<"b", ".", "i", "o">>

\* The domain names the host can hold a conf file, symlink or certificate for.
Domains == {ExampleCom, HyphenExampleCom, ExampleOrg}

\* The domain names the calls made one after the other are made with.
CallDomains == {ExampleCom, HyphenExampleCom}

(***************************************************************************)
(* The host and the call in progress.                                      *)
(***************************************************************************)
VARIABLES
    tools,         \* the tools shutil.which resolves
    conf,          \* conf[d]: content of sites-available/d.conf
    symlink,       \* symlink[d]: sites-enabled/d.conf exists (a link to conf_file)
    cert,          \* cert[d]: certbot holds a certificate for d
    loaded,        \* loaded[d]: d's configuration the daemon last loaded
    temp,          \* content of temp_nginx.conf in the working directory
    op,            \* the public operation in progress
    domain_name,   \* self.domain_name
    ssl_redirect,  \* argument of setup_ssl_certificate
    test_port,     \* argument of setup_ssl_certificate
    pc,            \* position in the operation
    tool,          \* the tool _check_tools found missing
    pending,       \* the failure the step returns once _rollback is done
    result,        \* what the operation returned
    ran,           \* the steps of the pipeline started in this call, in order
    res,           \* the results those steps returned
    log,           \* the external commands run in this call, with their outcome
    pre,           \* the host as it was when the call started
    calls,         \* number of calls started
    other,         \* a second call in progress, suspended between two sub-steps
    openssl,       \* what running openssl gives to check_ssl_expiry
    now,           \* what datetime.utcnow() gives to check_ssl_expiry
    check,         \* what check_ssl_expiry returned
    argv,          \* the command line given to main
    main,          \* where main of the CLI is, and how it ended
    env,           \* the environment variables Config reads
    config         \* the values Config has loaded

vars == <<tools, conf, symlink, cert, loaded, temp, op, domain_name, ssl_redirect,
          test_port, pc, tool, pending, result, ran, res, log, pre, calls, other,
          openssl, now, check, argv, main, env, config>>

\* The variables of Setup and Remove, of the CLI and of Config.
manager == <<tools, conf, symlink, cert, loaded, temp, op, domain_name, ssl_redirect,
             test_port, pc, tool, pending, result, ran, res, log, pre, calls, other>>
cli == <<argv, main>>
settings == <<env, config>>

\* The variables of the operations that are not Setup or Remove.
aside == <<openssl, now, check, cli, settings>>

host == <<tools, conf, symlink, cert, loaded, temp>>
args == <<op, domain_name, ssl_redirect, test_port>>

\* A missing file.
Absent == [kind |-> "absent", dom |-> <<>>, redirect |-> FALSE, http |-> {}]

\* config_content of _create_initial_nginx_conf: the HTTP-only server block.
InitialConf(d) ==
    [kind |-> "bootstrap", dom |-> d, redirect |-> FALSE,
     http |-> {"location_acme_challenge", "location_proxy_pass"}]

\* config_content of _create_final_nginx_conf: HTTP block plus the ssl block
\* naming /etc/letsencrypt/live/{d}/{fullchain,privkey,chain}.pem.
FinalConf(d, redirect) ==
    [kind |-> "final", dom |-> d, redirect |-> redirect,
     http |-> IF redirect THEN {"return_301"} ELSE {}]

\* What nginx reads for d: sites-enabled/d.conf resolved through the link.
Effective(c, s, d) == IF s[d] THEN c[d] ELSE Absent

\* The daemon after a successful restart: it has loaded what is on disk.
Reloaded(c, s) == [d \in Domains |-> Effective(c, s, d)]

\* Outcome of running an external command: exit status 0, a non-zero exit
\* status, or the command could not be run at all (subprocess raises OSError).
Outcomes == {"ok", "fail", "raise"}

\* open("temp_nginx.conf", "w") and f.write: done, or OSError.
WriteOutcomes == {"ok", "raise"}

\* Outcome of `sudo mv temp_nginx.conf {conf_file}`: mv cannot succeed when
\* temp_nginx.conf, the file t, does not exist.
MvOutcomes(t) == IF t = Absent THEN Outcomes \ {"ok"} ELSE Outcomes

\* subprocess.run(..., check=True): what the call raises, if anything.
CheckedRun(out) ==
    CASE out = "ok"    -> "none"
      [] out = "fail"  -> "CalledProcessError"
      [] out = "raise" -> "OSError"

\* subprocess.run(...) without check: the exit status is ignored.
UncheckedRun(out) ==
    CASE out = "ok"    -> "none"
      [] out = "fail"  -> "none"
      [] out = "raise" -> "OSError"

\* required_tools of _check_tools, in iteration order.
RequiredTools == <<"nginx", "certbot">>

\* Variant of FirstMissing that names nginx whichever tool is missing.
FirstMissingAlwaysNginx(ts) ==
    IF \E i \in 1..Len(RequiredTools) : RequiredTools[i] \notin ts
    THEN "nginx"
    ELSE ""

\* The first tool of required_tools that shutil.which does not find, or "".
FirstMissing(ts) ==
    IF \E i \in 1..Len(RequiredTools) : RequiredTools[i] \notin ts
    THEN RequiredTools[CHOOSE i \in 1..Len(RequiredTools) :
                          /\ RequiredTools[i] \notin ts
                          /\ \A j \in 1..(i - 1) : RequiredTools[j] \in ts]
    ELSE ""

\* The failure _check_tools returns for a missing tool.
ToolError(t) == IF t = "nginx" THEN "err_nginx_missing" ELSE "err_certbot_missing"

\* SetupSteps with the domain validated only after the bootstrap step.
SetupStepsValidateLate(tp) ==
    <<"check_tools">>
    \o (IF tp THEN <<"test_port">> ELSE <<>>)
    \o <<"initial", "validate", "obtain", "final">>

\* SetupSteps with the port probed before the domain is validated.
SetupStepsProbeFirst(tp) ==
    <<"check_tools">>
    \o (IF tp THEN <<"test_port">> ELSE <<>>)
    \o <<"validate", "initial", "obtain", "final">>

\* The step lists of setup_ssl_certificate and remove_ssl_certificate.
SetupSteps(tp) ==
    <<"check_tools", "validate">>
    \o (IF tp THEN <<"test_port">> ELSE <<>>)
    \o <<"initial", "obtain", "final">>

\* Variant of RemoveSteps that deletes the certificate first.
RemoveStepsCertFirst == <<"delete_ssl_certificate", "delete_nginx_config">>

RemoveSteps == <<"delete_nginx_config", "delete_ssl_certificate">>

Steps(o, tp) == IF o = "setup" THEN SetupSteps(tp) ELSE RemoveSteps

\* Where each step starts.
Entry(step) ==
    CASE step = "check_tools" -> "check_tools"
      [] step = "validate"    -> "validate"
      [] step = "test_port"   -> "probe"
      [] step = "initial"     -> "init_write"
      [] step = "obtain"      -> "obtain_mkdir"
      [] step = "final"       -> "final_write"
      [] step = "delete_nginx_config"    -> "rm_conf"
      [] step = "delete_ssl_certificate" -> "rm_certbot"

\* ShortCircuit with the failure test dropped: the loop goes on to the next step.
ShortCircuitNever(r) == FALSE

\* `if not result["mode"]: return result`
ShortCircuit(r) == r # "ok"

\* What the operation returns when every step has succeeded.
SuccessResult(o) == IF o = "setup" THEN "ok" ELSE "ok_removed"

\* The message of the result remove_ssl_certificate returns on success: the
\* parts of the formatted string, the domain name among them.
RemovedMessage(d) ==
    <<<<"Domain ">>, d, <<" and its SSL settings have been successfully removed.">>>>

\* A step returns r to the pipeline loop: return it, or start the next step.
FinishStep(r) ==
    /\ res' = Append(res, r)
    /\ IF ShortCircuit(r)
       THEN /\ pc' = "done"
            /\ result' = r
            /\ ran' = ran
       ELSE IF Len(ran) = Len(Steps(op, test_port))
       THEN /\ pc' = "done"
            /\ result' = SuccessResult(op)
            /\ ran' = ran
       ELSE /\ pc' = Entry(Steps(op, test_port)[Len(ran) + 1])
            /\ result' = result
            /\ ran' = Append(ran, Steps(op, test_port)[Len(ran) + 1])

\* An exception leaves the operation.
Raise ==
    /\ pc' = "done"
    /\ result' = "exception"
    /\ UNCHANGED <<ran, res>>

\* The command is run and is recorded with its outcome.
Ran(step, cmd, out) == log' = Append(log, [step |-> step, cmd |-> cmd, out |-> out])

\* The call before did not end by installing a missing tool.
NoInstall == [tool |-> "", missing |-> {}]

\* What the call that has just ended leaves for the next one to find: if it
\* was a Setup that returned the tool-check failure after its install command
\* succeeded, the tool it installed and the tools that were missing when it
\* started.
LastInstall ==
    IF /\ op = "setup"
       /\ result = ToolError(tool)
       /\ \E i \in 1..Len(log) : log[i].cmd = "apt_install" /\ log[i].out = "ok"
    THEN [tool |-> tool, missing |-> {"nginx", "certbot"} \ pre.tools]
    ELSE NoInstall

\* The host as a call finds it, and the installation the call before made.
Snapshot(prev) == [tools |-> tools, conf |-> conf, symlink |-> symlink, cert |-> cert,
                   loaded |-> loaded, temp |-> temp, prev |-> prev]

\* A host on which nothing has been set up yet.
CleanHost ==
    /\ conf = [d \in Domains |-> Absent]
    /\ symlink = [d \in Domains |-> FALSE]
    /\ cert = [d \in Domains |-> FALSE]
    /\ loaded = [d \in Domains |-> Absent]

\* A host as an earlier successful setup_ssl_certificate("a.io", port) left it.
ProvisionedHost ==
    /\ conf = [d \in Domains |-> IF d = ExampleCom THEN FinalConf(d, TRUE) ELSE Absent]
    /\ symlink = [d \in Domains |-> d = ExampleCom]
    /\ cert = [d \in Domains |-> d = ExampleCom]
    /\ loaded = [d \in Domains |-> IF d = ExampleCom THEN FinalConf(d, TRUE) ELSE Absent]

\* check_ssl_expiry is not called.
CheckIdle ==
    /\ openssl = [kind |-> "none"]
    /\ now = 0
    /\ check = [called |-> FALSE]

\* main of the CLI is not called.
CliIdle ==
    /\ argv = <<>>
    /\ main = [pc |-> "idle"]

\* The loading of Config is not looked at.
ConfigIdle ==
    /\ env = [n \in {} |-> <<>>]
    /\ config = [state |-> "unloaded"]

\* No operation other than Setup or Remove is called.
AsideIdle == CheckIdle /\ CliIdle /\ ConfigIdle

\* No second call is in progress.
NoProcess == [op |-> "none"]

Init ==
    /\ tools \in SUBSET {"nginx", "certbot"}
    /\ CleanHost \/ ProvisionedHost
    /\ temp = Absent
    /\ op = "none"
    /\ domain_name = ExampleCom
    /\ ssl_redirect = TRUE
    /\ test_port = FALSE
    /\ pc = "idle"
    /\ tool = ""
    /\ pending = "none"
    /\ result = "none"
    /\ ran = <<>>
    /\ res = <<>>
    /\ log = <<>>
    /\ pre = Snapshot(NoInstall)
    /\ calls = 0
    /\ other = NoProcess
    /\ AsideIdle

\* The caller constructs a manager and calls an operation on it.
Call(o, d, redirect, tp) ==
    /\ pc \in {"idle", "done"}
    /\ calls < MaxCalls
    /\ calls' = calls + 1
    /\ op' = o
    /\ domain_name' = d
    /\ ssl_redirect' = redirect
    /\ test_port' = tp
    /\ pc' = Entry(Steps(o, tp)[1])
    /\ ran' = <<Steps(o, tp)[1]>>
    /\ res' = <<>>
    /\ log' = <<>>
    /\ result' = "none"
    /\ tool' = ""
    /\ pending' = "none"
    /\ pre' = Snapshot(LastInstall)
    /\ UNCHANGED <<host, other, aside>>

\* setup_ssl_certificate(domain_name, forward_port, ssl_redirect, test_port)
CallSetup == \E d \in CallDomains, redirect \in BOOLEAN, tp \in BOOLEAN :
                Call("setup", d, redirect, tp)

\* remove_ssl_certificate(domain_name)
CallRemove == \E d \in CallDomains : Call("remove", d, TRUE, FALSE)

(***************************************************************************)
(* _check_tools and _install_tool                                          *)
(***************************************************************************)
CheckTools ==
    /\ pc = "check_tools"
    /\ IF FirstMissing(tools) = ""
       THEN /\ FinishStep("ok")
            /\ tool' = tool
       ELSE /\ tool' = FirstMissing(tools)
            /\ pc' = "install_update"
            /\ UNCHANGED <<result, ran, res>>
    /\ UNCHANGED <<host, args, pending, log, pre, calls, other, aside>>

\* sudo apt-get update
InstallUpdate ==
    /\ pc = "install_update"
    /\ \E out \in Outcomes :
          /\ Ran("check_tools", "apt_update", out)
          /\ IF UncheckedRun(out) = "none"
             THEN pc' = "install_tool" /\ UNCHANGED <<result, ran, res>>
             ELSE Raise
    /\ UNCHANGED <<host, args, tool, pending, pre, calls, other, aside>>

\* InstallTool going on with the pipeline once the install command has run.
InstallToolThenContinue ==
    /\ pc = "install_tool"
    /\ \E out \in Outcomes :
          /\ Ran("check_tools", "apt_install", out)
          /\ tools' = IF out = "ok" THEN tools \cup {tool} ELSE tools
          /\ IF UncheckedRun(out) = "none"
             THEN FinishStep("ok")
             ELSE Raise
    /\ UNCHANGED <<conf, symlink, cert, loaded, temp, args, tool, pending, pre, calls, other, aside>>

\* sudo apt-get install -y {tool}, then the failure is returned regardless.
InstallTool ==
    /\ pc = "install_tool"
    /\ \E out \in Outcomes :
          /\ Ran("check_tools", "apt_install", out)
          /\ tools' = IF out = "ok" THEN tools \cup {tool} ELSE tools
          /\ IF UncheckedRun(out) = "none"
             THEN FinishStep(ToolError(tool))
             ELSE Raise
    /\ UNCHANGED <<conf, symlink, cert, loaded, temp, args, tool, pending, pre, calls, other, aside>>

(***************************************************************************)
(* _validate_domain_name, as the second step of setup_ssl_certificate      *)
(***************************************************************************)
Validate ==
    /\ pc = "validate"
    /\ FinishStep(ValidateDomainName(domain_name))
    /\ UNCHANGED <<host, args, tool, pending, log, pre, calls, other, aside>>

(***************************************************************************)
(* _test_port_forward                                                      *)
(***************************************************************************)
\* What the curl invocation can give: a status on stdout, a non-zero exit,
\* the timeout expiring, or curl could not be run.
ProbeOutcomes == {"200", "404", "CalledProcessError", "TimeoutExpired", "OSError"}

\* Variant of ProbeResult that accepts whatever status curl printed.
ProbeResultAnyStatus(out) ==
    CASE out \in {"200", "404"} -> "ok"
      [] out \in {"CalledProcessError", "TimeoutExpired"} -> "err_port_not_accessible"
      [] out = "OSError" -> "exception"
      [] OTHER -> "err_port_not_responding"

\* The result _test_port_forward returns, or "exception" if it raises.
ProbeResult(out) ==
    CASE out = "200" -> "ok"
      [] out \in {"CalledProcessError", "TimeoutExpired"} -> "err_port_not_accessible"
      [] out = "OSError" -> "exception"
      [] OTHER -> "err_port_not_responding"

Probe ==
    /\ pc = "probe"
    /\ \E out \in ProbeOutcomes :
          /\ Ran("test_port", "curl", out)
          /\ IF ProbeResult(out) = "exception"
             THEN Raise
             ELSE FinishStep(ProbeResult(out))
    /\ UNCHANGED <<host, args, tool, pending, pre, calls, other, aside>>

(***************************************************************************)
(* _rollback: rm the conf file if it is a file, rm the symlink if it is a  *)
(* link, restart nginx; no exit status is looked at.                       *)
(***************************************************************************)
\* The step calls self._rollback() and will then return err.
StartRollback(err) ==
    /\ pc' = "rb_conf"
    /\ pending' = err
    /\ UNCHANGED <<result, ran, res>>

\* A _rollback that deletes the conf file only once the symlink is gone.
RollbackRmConfWhenDisabled ==
    /\ pc = "rb_conf"
    /\ IF conf[domain_name] # Absent /\ ~symlink[domain_name]
       THEN \E out \in Outcomes :
               /\ Ran("rollback", "rm_conf", out)
               /\ conf' = IF out = "ok" THEN [conf EXCEPT ![domain_name] = Absent]
                          ELSE conf
               /\ IF UncheckedRun(out) = "none"
                  THEN pc' = "rb_link" /\ UNCHANGED <<result, ran, res>>
                  ELSE Raise
       ELSE /\ pc' = "rb_link"
            /\ UNCHANGED <<conf, log, result, ran, res>>
    /\ UNCHANGED <<tools, symlink, cert, loaded, temp, args, tool, pending, pre, calls, other, aside>>

\* Variant of RollbackRmConf that gives up the rollback when rm exits non-zero.
RollbackRmConfStopsOnFailure ==
    /\ pc = "rb_conf"
    /\ IF conf[domain_name] # Absent
       THEN \E out \in Outcomes :
               /\ Ran("rollback", "rm_conf", out)
               /\ conf' = IF out = "ok" THEN [conf EXCEPT ![domain_name] = Absent]
                          ELSE conf
               /\ IF out = "ok"
                  THEN pc' = "rb_link" /\ UNCHANGED <<result, ran, res>>
                  ELSE IF out = "fail" THEN FinishStep(pending) ELSE Raise
       ELSE /\ pc' = "rb_link"
            /\ UNCHANGED <<conf, log, result, ran, res>>
    /\ UNCHANGED <<tools, symlink, cert, loaded, temp, args, tool, pending, pre, calls, other, aside>>

RollbackRmConf ==
    /\ pc = "rb_conf"
    /\ IF conf[domain_name] # Absent
       THEN \E out \in Outcomes :
               /\ Ran("rollback", "rm_conf", out)
               /\ conf' = IF out = "ok" THEN [conf EXCEPT ![domain_name] = Absent]
                          ELSE conf
               /\ IF UncheckedRun(out) = "none"
                  THEN pc' = "rb_link" /\ UNCHANGED <<result, ran, res>>
                  ELSE Raise
       ELSE /\ pc' = "rb_link"
            /\ UNCHANGED <<conf, log, result, ran, res>>
    /\ UNCHANGED <<tools, symlink, cert, loaded, temp, args, tool, pending, pre, calls, other, aside>>

RollbackRmLink ==
    /\ pc = "rb_link"
    /\ IF symlink[domain_name]
       THEN \E out \in Outcomes :
               /\ Ran("rollback", "rm_symlink", out)
               /\ symlink' = IF out = "ok" THEN [symlink EXCEPT ![domain_name] = FALSE]
                             ELSE symlink
               /\ IF UncheckedRun(out) = "none"
                  THEN pc' = "rb_restart" /\ UNCHANGED <<result, ran, res>>
                  ELSE Raise
       ELSE /\ pc' = "rb_restart"
            /\ UNCHANGED <<symlink, log, result, ran, res>>
    /\ UNCHANGED <<tools, conf, cert, loaded, temp, args, tool, pending, pre, calls, other, aside>>

RollbackRestart ==
    /\ pc = "rb_restart"
    /\ \E out \in Outcomes :
          /\ Ran("rollback", "restart", out)
          /\ loaded' = IF out = "ok" THEN Reloaded(conf, symlink) ELSE loaded
          /\ IF UncheckedRun(out) = "none"
             THEN FinishStep(pending)
             ELSE Raise
    /\ UNCHANGED <<tools, conf, symlink, cert, temp, args, tool, pending, pre, calls, other, aside>>

(***************************************************************************)
(* _create_initial_nginx_conf                                              *)
(***************************************************************************)
\* `except subprocess.CalledProcessError:` of _create_initial_nginx_conf
InitialCatches(exc) == exc = "CalledProcessError"

\* InitialFailed with the failure swallowed: the step reports success.
InitialFailedSwallowed(exc) == FinishStep("ok") /\ pending' = pending

\* A statement of the try block raised exc.
InitialFailed(exc) ==
    IF InitialCatches(exc)
    THEN StartRollback("err_initial")
    ELSE Raise /\ pending' = pending

InitWrite ==
    /\ pc = "init_write"
    /\ \E out \in WriteOutcomes :
          /\ Ran("initial", "write_temp", out)
          /\ IF out = "ok"
             THEN /\ temp' = InitialConf(domain_name)
                  /\ pc' = "init_mv"
                  /\ UNCHANGED <<result, ran, res, pending>>
             ELSE /\ temp' = temp
                  /\ InitialFailed("OSError")
    /\ UNCHANGED <<tools, conf, symlink, cert, loaded, args, tool, pre, calls, other, aside>>

\* sudo mv temp_nginx.conf {conf_file}
InitMv ==
    /\ pc = "init_mv"
    /\ \E out \in MvOutcomes(temp) :
          /\ Ran("initial", "mv", out)
          /\ IF CheckedRun(out) = "none"
             THEN /\ conf' = [conf EXCEPT ![domain_name] = temp]
                  /\ temp' = Absent
                  /\ pc' = "init_rmlink"
                  /\ UNCHANGED <<result, ran, res, pending>>
             ELSE /\ UNCHANGED <<conf, temp>>
                  /\ InitialFailed(CheckedRun(out))
    /\ UNCHANGED <<tools, symlink, cert, loaded, args, tool, pre, calls, other, aside>>

\* if os.path.islink(self.symlink): sudo rm {symlink}
InitRmLink ==
    /\ pc = "init_rmlink"
    /\ IF symlink[domain_name]
       THEN \E out \in Outcomes :
               /\ Ran("initial", "rm_symlink", out)
               /\ IF CheckedRun(out) = "none"
                  THEN /\ symlink' = [symlink EXCEPT ![domain_name] = FALSE]
                       /\ pc' = "init_ln"
                       /\ UNCHANGED <<result, ran, res, pending>>
                  ELSE /\ symlink' = symlink
                       /\ InitialFailed(CheckedRun(out))
       ELSE /\ pc' = "init_ln"
            /\ UNCHANGED <<symlink, log, result, ran, res, pending>>
    /\ UNCHANGED <<tools, conf, cert, loaded, temp, args, tool, pre, calls, other, aside>>

\* sudo ln -sfn {conf_file} {symlink}
InitLn ==
    /\ pc = "init_ln"
    /\ \E out \in Outcomes :
          /\ Ran("initial", "ln", out)
          /\ IF CheckedRun(out) = "none"
             THEN /\ symlink' = [symlink EXCEPT ![domain_name] = TRUE]
                  /\ pc' = "init_test"
                  /\ UNCHANGED <<result, ran, res, pending>>
             ELSE /\ symlink' = symlink
                  /\ InitialFailed(CheckedRun(out))
    /\ UNCHANGED <<tools, conf, cert, loaded, temp, args, tool, pre, calls, other, aside>>

\* An InitTest that runs `nginx -t` without check=True: its exit status is
\* ignored.
InitTestUnchecked ==
    /\ pc = "init_test"
    /\ \E out \in Outcomes :
          /\ Ran("initial", "nginx_t", out)
          /\ IF UncheckedRun(out) = "none"
             THEN pc' = "init_restart" /\ UNCHANGED <<result, ran, res, pending>>
             ELSE InitialFailed(UncheckedRun(out))
    /\ UNCHANGED <<host, args, tool, pre, calls, other, aside>>

\* sudo nginx -t
InitTest ==
    /\ pc = "init_test"
    /\ \E out \in Outcomes :
          /\ Ran("initial", "nginx_t", out)
          /\ IF CheckedRun(out) = "none"
             THEN pc' = "init_restart" /\ UNCHANGED <<result, ran, res, pending>>
             ELSE InitialFailed(CheckedRun(out))
    /\ UNCHANGED <<host, args, tool, pre, calls, other, aside>>

\* sudo systemctl restart nginx
InitRestart ==
    /\ pc = "init_restart"
    /\ \E out \in Outcomes :
          /\ Ran("initial", "restart", out)
          /\ IF CheckedRun(out) = "none"
             THEN /\ loaded' = Reloaded(conf, symlink)
                  /\ FinishStep("ok")
                  /\ pending' = pending
             ELSE /\ loaded' = loaded
                  /\ InitialFailed(CheckedRun(out))
    /\ UNCHANGED <<tools, conf, symlink, cert, temp, args, tool, pre, calls, other, aside>>

(***************************************************************************)
(* _obtain_ssl_certificate                                                 *)
(***************************************************************************)
\* `except subprocess.CalledProcessError:` of _obtain_ssl_certificate
ObtainCatches(exc) == exc = "CalledProcessError"

\* ObtainFailed with the failure swallowed: the step reports success.
ObtainFailedSwallowed(exc) == FinishStep("ok") /\ pending' = pending

ObtainFailed(exc) ==
    IF ObtainCatches(exc)
    THEN StartRollback("err_obtain")
    ELSE Raise /\ pending' = pending

\* sudo mkdir -p {webroot}/.well-known/acme-challenge
ObtainMkdir ==
    /\ pc = "obtain_mkdir"
    /\ \E out \in Outcomes :
          /\ Ran("obtain", "mkdir", out)
          /\ IF CheckedRun(out) = "none"
             THEN pc' = "obtain_certbot" /\ UNCHANGED <<result, ran, res, pending>>
             ELSE ObtainFailed(CheckedRun(out))
    /\ UNCHANGED <<host, args, tool, pre, calls, other, aside>>

\* sudo certbot certonly --webroot ... -d {domain_name}
ObtainCertbot ==
    /\ pc = "obtain_certbot"
    /\ \E out \in Outcomes :
          /\ Ran("obtain", "certbot_certonly", out)
          /\ IF CheckedRun(out) = "none"
             THEN /\ cert' = [cert EXCEPT ![domain_name] = TRUE]
                  /\ FinishStep("ok")
                  /\ pending' = pending
             ELSE /\ cert' = cert
                  /\ ObtainFailed(CheckedRun(out))
    /\ UNCHANGED <<tools, conf, symlink, loaded, temp, args, tool, pre, calls, other, aside>>

(***************************************************************************)
(* _create_final_nginx_conf                                                *)
(***************************************************************************)
\* `except Exception:` of _create_final_nginx_conf
FinalCatches(exc) == exc \in {"CalledProcessError", "OSError"}

\* FinalFailed calling _rollback like the two steps before it.
FinalFailedWithRollback(exc) ==
    IF FinalCatches(exc)
    THEN StartRollback("err_final")
    ELSE Raise /\ pending' = pending

\* A statement of the try block raised exc: the failure is returned as is.
FinalFailed(exc) ==
    IF FinalCatches(exc)
    THEN FinishStep("err_final") /\ pending' = pending
    ELSE Raise /\ pending' = pending

FinalWrite ==
    /\ pc = "final_write"
    /\ \E out \in WriteOutcomes :
          /\ Ran("final", "write_temp", out)
          /\ IF out = "ok"
             THEN /\ temp' = FinalConf(domain_name, ssl_redirect)
                  /\ pc' = "final_mv"
                  /\ UNCHANGED <<result, ran, res, pending>>
             ELSE /\ temp' = temp
                  /\ FinalFailed("OSError")
    /\ UNCHANGED <<tools, conf, symlink, cert, loaded, args, tool, pre, calls, other, aside>>

FinalMv ==
    /\ pc = "final_mv"
    /\ \E out \in MvOutcomes(temp) :
          /\ Ran("final", "mv", out)
          /\ IF CheckedRun(out) = "none"
             THEN /\ conf' = [conf EXCEPT ![domain_name] = temp]
                  /\ temp' = Absent
                  /\ pc' = "final_test"
                  /\ UNCHANGED <<result, ran, res, pending>>
             ELSE /\ UNCHANGED <<conf, temp>>
                  /\ FinalFailed(CheckedRun(out))
    /\ UNCHANGED <<tools, symlink, cert, loaded, args, tool, pre, calls, other, aside>>

FinalTest ==
    /\ pc = "final_test"
    /\ \E out \in Outcomes :
          /\ Ran("final", "nginx_t", out)
          /\ IF CheckedRun(out) = "none"
             THEN pc' = "final_restart" /\ UNCHANGED <<result, ran, res, pending>>
             ELSE FinalFailed(CheckedRun(out))
    /\ UNCHANGED <<host, args, tool, pre, calls, other, aside>>

FinalRestart ==
    /\ pc = "final_restart"
    /\ \E out \in Outcomes :
          /\ Ran("final", "restart", out)
          /\ IF CheckedRun(out) = "none"
             THEN /\ loaded' = Reloaded(conf, symlink)
                  /\ FinishStep("ok")
                  /\ pending' = pending
             ELSE /\ loaded' = loaded
                  /\ FinalFailed(CheckedRun(out))
    /\ UNCHANGED <<tools, conf, symlink, cert, temp, args, tool, pre, calls, other, aside>>

(***************************************************************************)
(* remove_ssl_certificate: delete_nginx_config, delete_ssl_certificate     *)
(***************************************************************************)
\* `except subprocess.CalledProcessError:` of delete_nginx_config
DeleteConfigCatches(exc) == exc = "CalledProcessError"

\* Variant of DeleteConfigFailed that reports success to the pipeline.
DeleteConfigFailedSwallowed(exc) ==
    IF DeleteConfigCatches(exc)
    THEN FinishStep("ok")
    ELSE Raise

DeleteConfigFailed(exc) ==
    IF DeleteConfigCatches(exc)
    THEN FinishStep("err_delete_config")
    ELSE Raise

\* Variant of RemoveRmConf that deletes without looking whether the file exists.
RemoveRmConfUnconditional ==
    /\ pc = "rm_conf"
    /\ \E out \in Outcomes :
          /\ Ran("delete_nginx_config", "rm_conf", out)
          /\ IF CheckedRun(out) = "none"
             THEN /\ conf' = [conf EXCEPT ![domain_name] = Absent]
                  /\ pc' = "rm_link"
                  /\ UNCHANGED <<result, ran, res>>
             ELSE /\ conf' = conf
                  /\ DeleteConfigFailed(CheckedRun(out))
    /\ UNCHANGED <<tools, symlink, cert, loaded, temp, args, tool, pending, pre, calls, other, aside>>

\* if os.path.isfile(self.conf_file): sudo rm {conf_file}
RemoveRmConf ==
    /\ pc = "rm_conf"
    /\ IF conf[domain_name] # Absent
       THEN \E out \in Outcomes :
               /\ Ran("delete_nginx_config", "rm_conf", out)
               /\ IF CheckedRun(out) = "none"
                  THEN /\ conf' = [conf EXCEPT ![domain_name] = Absent]
                       /\ pc' = "rm_link"
                       /\ UNCHANGED <<result, ran, res>>
                  ELSE /\ conf' = conf
                       /\ DeleteConfigFailed(CheckedRun(out))
       ELSE /\ pc' = "rm_link"
            /\ UNCHANGED <<conf, log, result, ran, res>>
    /\ UNCHANGED <<tools, symlink, cert, loaded, temp, args, tool, pending, pre, calls, other, aside>>

\* if os.path.islink(self.symlink): sudo rm {symlink}
RemoveRmLink ==
    /\ pc = "rm_link"
    /\ IF symlink[domain_name]
       THEN \E out \in Outcomes :
               /\ Ran("delete_nginx_config", "rm_symlink", out)
               /\ IF CheckedRun(out) = "none"
                  THEN /\ symlink' = [symlink EXCEPT ![domain_name] = FALSE]
                       /\ pc' = "rm_test"
                       /\ UNCHANGED <<result, ran, res>>
                  ELSE /\ symlink' = symlink
                       /\ DeleteConfigFailed(CheckedRun(out))
       ELSE /\ pc' = "rm_test"
            /\ UNCHANGED <<symlink, log, result, ran, res>>
    /\ UNCHANGED <<tools, conf, cert, loaded, temp, args, tool, pending, pre, calls, other, aside>>

RemoveTest ==
    /\ pc = "rm_test"
    /\ \E out \in Outcomes :
          /\ Ran("delete_nginx_config", "nginx_t", out)
          /\ IF CheckedRun(out) = "none"
             THEN pc' = "rm_restart" /\ UNCHANGED <<result, ran, res>>
             ELSE DeleteConfigFailed(CheckedRun(out))
    /\ UNCHANGED <<host, args, tool, pending, pre, calls, other, aside>>

RemoveRestart ==
    /\ pc = "rm_restart"
    /\ \E out \in Outcomes :
          /\ Ran("delete_nginx_config", "restart", out)
          /\ IF CheckedRun(out) = "none"
             THEN /\ loaded' = Reloaded(conf, symlink)
                  /\ FinishStep("ok")
             ELSE /\ loaded' = loaded
                  /\ DeleteConfigFailed(CheckedRun(out))
    /\ UNCHANGED <<tools, conf, symlink, cert, temp, args, tool, pending, pre, calls, other, aside>>

\* `except subprocess.CalledProcessError:` of delete_ssl_certificate
DeleteCertCatches(exc) == exc = "CalledProcessError"

\* sudo certbot delete --cert-name {domain_name} -n
RemoveCertbot ==
    /\ pc = "rm_certbot"
    /\ \E out \in Outcomes :
          /\ Ran("delete_ssl_certificate", "certbot_delete", out)
          /\ IF CheckedRun(out) = "none"
             THEN /\ cert' = [cert EXCEPT ![domain_name] = FALSE]
                  /\ FinishStep("ok")
             ELSE /\ cert' = cert
                  /\ IF DeleteCertCatches(CheckedRun(out))
                     THEN FinishStep("err_delete_cert")
                     ELSE Raise
    /\ UNCHANGED <<tools, conf, symlink, loaded, temp, args, tool, pending, pre, calls, other, aside>>

Next ==
    \/ CallSetup
    \/ CallRemove
    \/ CheckTools
    \/ InstallUpdate
    \/ InstallTool
    \/ Validate
    \/ Probe
    \/ InitWrite
    \/ InitMv
    \/ InitRmLink
    \/ InitLn
    \/ InitTest
    \/ InitRestart
    \/ ObtainMkdir
    \/ ObtainCertbot
    \/ FinalWrite
    \/ FinalMv
    \/ FinalTest
    \/ FinalRestart
    \/ RollbackRmConf
    \/ RollbackRmLink
    \/ RollbackRestart
    \/ RemoveRmConf
    \/ RemoveRmLink
    \/ RemoveTest
    \/ RemoveRestart
    \/ RemoveCertbot

Spec == Init /\ [][Next]_vars

(***************************************************************************)
(* Two setup_ssl_certificate calls in progress at once                     *)
(***************************************************************************)
\* The variables of the call that is taking steps.
Context ==
    [op |-> op, domain_name |-> domain_name, ssl_redirect |-> ssl_redirect,
     test_port |-> test_port, pc |-> pc, tool |-> tool, pending |-> pending,
     result |-> result, ran |-> ran, res |-> res, log |-> log, pre |-> pre]

\* A setup_ssl_certificate call for d that has just been entered.
SetupEntered(d, redirect, tp) ==
    [op |-> "setup", domain_name |-> d, ssl_redirect |-> redirect,
     test_port |-> tp, pc |-> Entry(SetupSteps(tp)[1]), tool |-> "",
     pending |-> "none", result |-> "none", ran |-> <<SetupSteps(tp)[1]>>,
     res |-> <<>>, log |-> <<>>, pre |-> Snapshot(NoInstall)]

\* The call c is the one taking steps.
Running(c) ==
    /\ op = c.op
    /\ domain_name = c.domain_name
    /\ ssl_redirect = c.ssl_redirect
    /\ test_port = c.test_port
    /\ pc = c.pc
    /\ tool = c.tool
    /\ pending = c.pending
    /\ result = c.result
    /\ ran = c.ran
    /\ res = c.res
    /\ log = c.log
    /\ pre = c.pre

\* Two Setup calls for two different valid domains have been entered on a
\* clean host, from the same working directory.
InitInterleaved ==
    /\ tools \in SUBSET {"nginx", "certbot"}
    /\ CleanHost
    /\ temp = Absent
    /\ calls = 2
    /\ AsideIdle
    /\ \E tp \in BOOLEAN :
          /\ Running(SetupEntered(ExampleCom, TRUE, tp))
          /\ other = SetupEntered(ExampleOrg, TRUE, tp)

\* Between two sub-steps of one call the other call takes its next sub-steps.
Switch ==
    /\ other # NoProcess
    /\ other.pc # "done"
    /\ op' = other.op
    /\ domain_name' = other.domain_name
    /\ ssl_redirect' = other.ssl_redirect
    /\ test_port' = other.test_port
    /\ pc' = other.pc
    /\ tool' = other.tool
    /\ pending' = other.pending
    /\ result' = other.result
    /\ ran' = other.ran
    /\ res' = other.res
    /\ log' = other.log
    /\ pre' = other.pre
    /\ other' = Context
    /\ UNCHANGED <<host, calls, aside>>

NextInterleaved ==
    \/ Switch
    \/ CheckTools
    \/ InstallUpdate
    \/ InstallTool
    \/ Validate
    \/ Probe
    \/ InitWrite
    \/ InitMv
    \/ InitRmLink
    \/ InitLn
    \/ InitTest
    \/ InitRestart
    \/ ObtainMkdir
    \/ ObtainCertbot
    \/ FinalWrite
    \/ FinalMv
    \/ FinalTest
    \/ FinalRestart
    \/ RollbackRmConf
    \/ RollbackRmLink
    \/ RollbackRestart

SpecInterleaved == InitInterleaved /\ [][NextInterleaved]_vars

(***************************************************************************)
(* _validate_domain_name applied to arbitrary strings                      *)
(***************************************************************************)
\* The characters the strings are made of: a letter, a digit, the hyphen, the
\* dot, the line break and a character no domain name may contain.
Alphabet == {"a", "1", Hyphen, Dot, Newline, "_"}

\* The strings of at most n characters.
Strings(n) == UNION {[1..k -> Alphabet] : k \in 0..n}

\* A Setup call with an arbitrary string as domain name has passed the tool
\* check and is about to validate the name.
InitValidate ==
    /\ tools = {"nginx", "certbot"}
    /\ CleanHost
    /\ temp = Absent
    /\ calls = 1
    /\ other = NoProcess
    /\ AsideIdle
    /\ \E s \in Strings(MaxDomainLen) :
          LET c == SetupEntered(s, TRUE, FALSE) IN
          Running([c EXCEPT !.pc = "validate",
                            !.ran = <<"check_tools", "validate">>,
                            !.res = <<"ok">>])

NextValidate == Validate

SpecValidate == InitValidate /\ [][NextValidate]_vars

(***************************************************************************)
(* check_ssl_expiry                                                        *)
(***************************************************************************)
\* The month names %b knows (the first two of them) and their lengths in days.
MonthNames == <<"Jan", "Feb">>
MonthDays == <<31, 28>>

\* The texts openssl can print after "notAfter=": a month name or a word that
\* is none, a day of the month or a number that is none, and the zone.
DateTexts == [mon : {"Jan", "Feb", "Foo"}, day : {0, 1, 31, 32}, zone : {"GMT", "UTC"}]

\* Index of the month named by text in MonthNames, 0 if it names none.
MonthIndex(text) ==
    IF \E i \in 1..Len(MonthNames) : MonthNames[i] = text.mon
    THEN CHOOSE i \in 1..Len(MonthNames) : MonthNames[i] = text.mon
    ELSE 0

\* datetime.strptime(text, "%b %d %H:%M:%S %Y GMT") does not raise ValueError.
Parseable(text) ==
    /\ MonthIndex(text) # 0
    /\ text.day >= 1
    /\ text.day <= MonthDays[MonthIndex(text)]
    /\ text.zone = "GMT"

\* Days of the months before month i.
RECURSIVE DaysBefore(_)
DaysBefore(i) == IF i <= 1 THEN 0 ELSE MonthDays[i - 1] + DaysBefore(i - 1)

\* The datetime strptime returns for a parseable text, as a day of the year.
Strptime(text) == DaysBefore(MonthIndex(text)) + text.day

\* The clock of datetime.utcnow() is finer than the timestamp of the
\* certificate: ticks of the clock in one unit of the timestamp.
TicksPerUnit == 2

\* What subprocess.check_output gives: it raises, or the "="-separated
\* fields of what openssl printed.
OpensslOutcomes ==
    [kind : {"raise"}, exc : {"FileNotFoundError", "CalledProcessError", "PermissionError"}]
    \cup {[kind |-> "output", fields |-> <<"unable to load certificate">>]}
    \cup {[kind |-> "output", fields |-> <<"notAfter", text>>] : text \in DateTexts}
    \cup {[kind |-> "output", fields |-> <<"notAfter", text, "">>] : text \in DateTexts}

Failure(error) == [called |-> TRUE, success |-> FALSE, error |-> error]

\* Variant of CheckResult that takes a certificate expiring now as expired.
CheckResultStrict(o, t) ==
    IF o.kind = "raise"
    THEN CASE o.exc = "FileNotFoundError" -> Failure("err_openssl_missing")
           [] o.exc = "CalledProcessError" -> Failure("err_cert_file")
           [] OTHER -> Failure("err_unexpected")
    ELSE IF Len(o.fields) < 2
    THEN Failure("err_unexpected")
    ELSE IF ~Parseable(o.fields[2])
    THEN Failure("err_parse")
    ELSE [called |-> TRUE, success |-> TRUE,
          is_active |-> Strptime(o.fields[2]) * TicksPerUnit > t]

\* The result of check_ssl_expiry when check_output gives o and the clock t.
CheckResult(o, t) ==
    IF o.kind = "raise"
    THEN CASE o.exc = "FileNotFoundError" -> Failure("err_openssl_missing")
           [] o.exc = "CalledProcessError" -> Failure("err_cert_file")
           [] OTHER -> Failure("err_unexpected")
    ELSE IF Len(o.fields) < 2
    THEN Failure("err_unexpected")
    ELSE IF ~Parseable(o.fields[2])
    THEN Failure("err_parse")
    ELSE [called |-> TRUE, success |-> TRUE,
          is_active |-> Strptime(o.fields[2]) * TicksPerUnit >= t]

\* No Setup or Remove call is made.
ManagerIdle ==
    /\ tools = {"nginx", "certbot"}
    /\ CleanHost
    /\ temp = Absent
    /\ calls = 0
    /\ other = NoProcess
    /\ Running([op |-> "none", domain_name |-> ExampleCom, ssl_redirect |-> TRUE,
                test_port |-> FALSE, pc |-> "idle", tool |-> "", pending |-> "none",
                result |-> "none", ran |-> <<>>, res |-> <<>>, log |-> <<>>,
                pre |-> Snapshot(NoInstall)])

InitCheck ==
    /\ ManagerIdle
    /\ CliIdle
    /\ ConfigIdle
    /\ openssl \in OpensslOutcomes
    /\ now \in 0..MaxNow
    /\ check = [called |-> FALSE]

CheckSslExpiry ==
    /\ ~check.called
    /\ check' = CheckResult(openssl, now)
    /\ UNCHANGED <<manager, openssl, now, cli, settings>>

NextCheck == CheckSslExpiry

SpecCheck == InitCheck /\ [][NextCheck]_vars

(***************************************************************************)
(* cli.main                                                                *)
(***************************************************************************)
\* The subcommands create_parser registers, and the positional arguments of
\* each.
Commands == {"setup", "remove", "check", "config"}
Positionals(command) ==
    CASE command = "setup" -> 2
      [] command = "config" -> 0
      [] OTHER -> 1

\* The options of the setup subcommand.
SetupFlags == {"--no-redirect", "--test-port"}

\* The texts int() converts, for the port argument (type=int).
IntTexts == {"3000"}

IsFlag(token) == token \in SetupFlags \cup {"--bogus"}

\* The command lines main is called with.
Argvs ==
    {<<>>, <<"config">>, <<"config", "extra">>, <<"unknown">>, <<"remove">>,
     <<"setup", "a.io">>, <<"setup", "a.io", "x">>, <<"setup", "a.io", "3000", "--bogus">>,
     <<"remove", "a.io", "--test-port">>}
    \cup {<<c, d>> : c \in {"remove", "check"}, d \in {"a.io", "-a.io"}}
    \cup {<<"setup", d, "3000">> \o f :
             d \in {"a.io", "-a.io"},
             f \in {<<>>, <<"--no-redirect">>, <<"--test-port">>,
                    <<"--no-redirect", "--test-port">>}}

\* parser.parse_args(argv): the namespace, or the status argparse exits with.
ParseArgs(a) ==
    LET pos == SelectSeq(a, LAMBDA token : ~IsFlag(token))
        flags == {a[i] : i \in 1..Len(a)} \ {pos[i] : i \in 1..Len(pos)}
    IN  IF pos = <<>>
        THEN IF flags = {} THEN [kind |-> "args", command |-> "none", flags |-> {}]
                           ELSE [kind |-> "exit", code |-> 2]
        ELSE IF pos[1] \notin Commands
        THEN [kind |-> "exit", code |-> 2]
        ELSE IF Len(pos) - 1 # Positionals(pos[1])
        THEN [kind |-> "exit", code |-> 2]
        ELSE IF pos[1] = "setup" /\ pos[3] \notin IntTexts
        THEN [kind |-> "exit", code |-> 2]
        ELSE IF ~(flags \subseteq (IF pos[1] = "setup" THEN SetupFlags ELSE {}))
        THEN [kind |-> "exit", code |-> 2]
        ELSE [kind |-> "args", command |-> pos[1], flags |-> flags]

\* What the operation a subcommand calls can give: a result, or an exception.
SetupResults ==
    {"ok", "err_nginx_missing", "err_certbot_missing", "err_invalid_domain",
     "err_port_not_responding", "err_port_not_accessible", "err_initial",
     "err_obtain", "err_final"}
RemoveResults == {"ok_removed", "err_delete_config", "err_delete_cert"}
Raised == {"Exception", "KeyboardInterrupt"}

OperationOutcomes(command) ==
    CASE command = "setup" -> SetupResults \cup Raised
      [] command = "remove" -> RemoveResults \cup Raised
      [] command = "check" ->
            {IF CheckResult(o, t).success THEN "checked" ELSE CheckResult(o, t).error :
                o \in OpensslOutcomes, t \in {0, MaxNow}} \cup Raised
      [] OTHER -> {"shown"} \cup Raised

\* result["mode"] / result["success"] of what the operation returned.
Succeeded(outcome) == outcome \in {"ok", "ok_removed", "shown", "checked"}

\* main has ended: it returned code, or left by SystemExit or an exception.
Ended(command, outcome, how, code) ==
    [pc |-> "done", command |-> command, outcome |-> outcome, how |-> how,
     code |-> code]

InitCli ==
    /\ ManagerIdle
    /\ CheckIdle
    /\ ConfigIdle
    /\ argv \in Argvs
    /\ main = [pc |-> "parse"]

\* args = parser.parse_args(argv); if not args.command: print_help, return 1
MainParse ==
    /\ main.pc = "parse"
    /\ \E signal \in {"none", "KeyboardInterrupt"} :
          IF signal # "none"
          THEN main' = Ended("none", "none", signal, 1)
          ELSE IF ParseArgs(argv).kind = "exit"
          THEN main' = Ended("none", "none", "SystemExit", ParseArgs(argv).code)
          ELSE IF ParseArgs(argv).command = "none"
          THEN main' = Ended("none", "none", "return", 1)
          ELSE main' = [pc |-> "dispatch", command |-> ParseArgs(argv).command]
    /\ UNCHANGED <<manager, openssl, now, check, argv, settings>>

\* The try block of main: the subcommand's handler and the two except clauses.
MainDispatch ==
    /\ main.pc = "dispatch"
    /\ \E outcome \in OperationOutcomes(main.command) :
          main' = Ended(main.command, outcome, "return",
                        IF outcome \in Raised THEN 1
                        ELSE IF Succeeded(outcome) THEN 0 ELSE 1)
    /\ UNCHANGED <<manager, openssl, now, check, argv, settings>>

NextCli == MainParse \/ MainDispatch

SpecCli == InitCli /\ [][NextCli]_vars

(***************************************************************************)
(* Config                                                                  *)
(***************************************************************************)
\* The settings Config converts with int(), and the default text of each.
IntSettings == {"DEFAULT_HTTP_PORT", "DEFAULT_HTTPS_PORT", "PORT_TEST_TIMEOUT"}
DefaultText(name) ==
    CASE name = "DEFAULT_HTTP_PORT" -> <<"8", "0">>
      [] name = "DEFAULT_HTTPS_PORT" -> <<"4", "4", "3">>
      [] OTHER -> <<"1", "0">>

\* The decimal digits and their values.
DigitValue ==
    [c \in {"0", "1", "2", "3", "4", "5", "6", "7", "8", "9"} |->
        CASE c = "0" -> 0 [] c = "1" -> 1 [] c = "2" -> 2 [] c = "3" -> 3
          [] c = "4" -> 4 [] c = "5" -> 5 [] c = "6" -> 6 [] c = "7" -> 7
          [] c = "8" -> 8 [] OTHER -> 9]

\* The values an environment variable is given: texts of a sign, two digits
\* and a character that is neither.
EnvTexts == UNION {[1..k -> {"-", "0", "8", "x"}] : k \in 0..MaxEnvLen}

\* The text without its sign.
Unsigned(text) ==
    IF text # <<>> /\ text[1] = "-" THEN Tail(text) ELSE text

\* int(text) does not raise ValueError: an optional sign and one digit or more.
IsIntText(text) ==
    /\ Unsigned(text) # <<>>
    /\ \A i \in 1..Len(Unsigned(text)) : Unsigned(text)[i] \in DOMAIN DigitValue

\* The number a text of digits denotes.
RECURSIVE Decimal(_)
Decimal(digits) ==
    IF digits = <<>> THEN 0
    ELSE 10 * Decimal(SubSeq(digits, 1, Len(digits) - 1)) + DigitValue[digits[Len(digits)]]

\* int(text)
IntOf(text) ==
    IF text # <<>> /\ text[1] = "-" THEN 0 - Decimal(Unsigned(text))
    ELSE Decimal(text)

\* os.getenv(name, default)
Getenv(e, name) == IF name \in DOMAIN e THEN e[name] ELSE DefaultText(name)

\* The class body of Config: the three values, or the ValueError of int().
LoadedConfig(e) ==
    IF \A name \in IntSettings : IsIntText(Getenv(e, name))
    THEN [state |-> "loaded",
          DEFAULT_HTTP_PORT |-> IntOf(Getenv(e, "DEFAULT_HTTP_PORT")),
          DEFAULT_HTTPS_PORT |-> IntOf(Getenv(e, "DEFAULT_HTTPS_PORT")),
          PORT_TEST_TIMEOUT |-> IntOf(Getenv(e, "PORT_TEST_TIMEOUT"))]
    ELSE [state |-> "ValueError"]

InitConfig ==
    /\ ManagerIdle
    /\ CheckIdle
    /\ CliIdle
    /\ env \in UNION {[names -> EnvTexts] : names \in SUBSET IntSettings}
    /\ config = [state |-> "unloaded"]

\* import nginx_ssl_auto.core
LoadConfig ==
    /\ config.state = "unloaded"
    /\ config' = LoadedConfig(env)
    /\ UNCHANGED <<manager, openssl, now, check, cli, env>>

NextConfig == LoadConfig

SpecConfig == InitConfig /\ [][NextConfig]_vars

(***************************************************************************)
(* _rollback called on its own, twice in succession                        *)
(***************************************************************************)
\* The configurations the conf file of a domain can hold.
ConfContents(d) == {Absent, InitialConf(d), FinalConf(d, TRUE), FinalConf(d, FALSE)}

\* manager._rollback() has been called for a domain whose conf file and
\* symlink are in any state.
InitRollback ==
    /\ AsideIdle
    /\ tools = {"nginx", "certbot"}
    /\ temp = Absent
    /\ calls = 1
    /\ other = NoProcess
    /\ cert = [d \in Domains |-> FALSE]
    /\ \E d \in {ExampleCom, ExampleOrg}, s \in BOOLEAN, l \in BOOLEAN :
       \E c \in ConfContents(d) :
          /\ conf = [e \in Domains |-> IF e = d THEN c ELSE Absent]
          /\ symlink = [e \in Domains |-> e = d /\ s]
          /\ loaded = [e \in Domains |-> IF e = d /\ l THEN Effective(conf, symlink, e)
                                         ELSE Absent]
          /\ Running([op |-> "rollback", domain_name |-> d, ssl_redirect |-> TRUE,
                      test_port |-> FALSE, pc |-> "rb_conf", tool |-> "",
                      pending |-> "returned", result |-> "none", ran |-> <<>>,
                      res |-> <<>>, log |-> <<>>, pre |-> Snapshot(NoInstall)])

\* manager._rollback() is called once more when the first call is over.
CallRollbackAgain ==
    /\ op = "rollback"
    /\ pc = "done"
    /\ calls = 1
    /\ calls' = 2
    /\ pc' = "rb_conf"
    /\ result' = "none"
    /\ res' = <<>>
    /\ pre' = Snapshot(NoInstall)
    /\ UNCHANGED <<host, args, tool, pending, ran, log, other, aside>>

NextRollback ==
    \/ RollbackRmConf
    \/ RollbackRmLink
    \/ RollbackRestart
    \/ CallRollbackAgain

SpecRollback == InitRollback /\ [][NextRollback]_vars

(***************************************************************************)
(* Vocabulary of the properties                                            *)
(***************************************************************************)
\* The operation has returned a result (no exception left it).
Returned == pc = "done" /\ result # "exception"

\* Some command cmd run by step in this call ended with outcome out.
Logged(step, cmd, out) ==
    \E i \in 1..Len(log) : log[i] = [step |-> step, cmd |-> cmd, out |-> out]

\* Some command among cmds run by step in this call did not succeed.
SubStepFailed(step, cmds) ==
    \E i \in 1..Len(log) :
        /\ log[i].step = step
        /\ log[i].cmd \in cmds
        /\ log[i].out # "ok"

\* Some command among cmds was run in this call, by any step.
Invoked(cmds) == \E i \in 1..Len(log) : log[i].cmd \in cmds

\* The commands that write, move or delete configuration, reload the daemon
\* or call the certificate client.
ConfigCommands == {"write_temp", "mv", "ln", "rm_conf", "rm_symlink", "nginx_t",
                   "restart", "mkdir", "certbot_certonly", "certbot_delete"}

\* Nothing of the host's configuration differs from the start of the call.
ConfigUntouched ==
    /\ conf = pre.conf
    /\ symlink = pre.symlink
    /\ loaded = pre.loaded
    /\ cert = pre.cert
    /\ temp = pre.temp

\* The step named name was started in this call and returned a failure.
StepReturnedFailure(name) ==
    \E i \in 1..Len(res) : ran[i] = name /\ res[i] # "ok"

\* s is an initial segment of t.
IsPrefix(s, t) == Len(s) <= Len(t) /\ \A i \in 1..Len(s) : s[i] = t[i]

(***************************************************************************)
(* C1: at the return of every Setup or Remove call, succeeded or failed,   *)
(* the configuration on disk for the domain (the conf file as enabled by   *)
(* the symlink) is the configuration the daemon last loaded, whichever     *)
(* sub-step of a step failed (the two agreed when the call started, and    *)
(* the commands of _rollback itself all succeeded).                        *)
(* Violated: the final step and delete_nginx_config return their failure   *)
(* with the disk changed and no successful reload behind it.               *)
(***************************************************************************)
C1_DiskAgreesWithDaemonAtReturn ==
    (Returned /\ op \in {"setup", "remove"}
       /\ Effective(pre.conf, pre.symlink, domain_name) = pre.loaded[domain_name]
       /\ \A i \in 1..Len(log) : log[i].step = "rollback" => log[i].out = "ok")
        => Effective(conf, symlink, domain_name) = loaded[domain_name]

(***************************************************************************)
(* C2: when a sub-step of the bootstrap step fails (mv, rm/ln of the       *)
(* symlink, nginx -t, restart), _rollback is invoked, after Setup neither  *)
(* the conf file nor the symlink exists, a restart has been requested by   *)
(* _rollback, and Setup returns the initial-configuration failure.         *)
(* Violated: an error other than a non-zero exit leaves the step without   *)
(* rollback, and _rollback does not look at the outcome of its deletes.    *)
(***************************************************************************)
C2_BootstrapFailureRollsBack ==
    (pc = "done" /\ op = "setup"
       /\ SubStepFailed("initial", {"mv", "rm_symlink", "ln", "nginx_t", "restart"}))
        => /\ pending = "err_initial"
           /\ conf[domain_name] = Absent
           /\ ~symlink[domain_name]
           /\ \E out \in Outcomes : Logged("rollback", "restart", out)
           /\ result = "err_initial"

(***************************************************************************)
(* C3: when certificate issuance fails after the bootstrap configuration   *)
(* was written and loaded, _rollback removes the bootstrap conf file and   *)
(* symlink, Setup returns the obtain-certificate failure and the final     *)
(* step is not executed in that call.                                      *)
(* Violated, for the same two reasons as C2.                               *)
(***************************************************************************)
C3_IssuanceFailureRollsBack ==
    (pc = "done" /\ op = "setup"
       /\ Logged("initial", "restart", "ok")
       /\ SubStepFailed("obtain", {"certbot_certonly"}))
        => /\ conf[domain_name] = Absent
           /\ ~symlink[domain_name]
           /\ result = "err_obtain"
           /\ \A i \in 1..Len(ran) : ran[i] # "final"

(***************************************************************************)
(* C4: when Setup fails at the bootstrap or issuance step on a domain that *)
(* had a working conf file and enabled symlink before the call (the final  *)
(* configuration of an earlier Setup, loaded by the daemon), the conf file *)
(* content and the symlink are afterwards what they were before.           *)
(* Violated: the bootstrap step overwrites the conf file and _rollback     *)
(* deletes it.                                                             *)
(***************************************************************************)
C4_FailedSetupRestoresPreviousConfig ==
    (Returned /\ op = "setup"
       /\ result \in {"err_initial", "err_obtain"}
       /\ pre.conf[domain_name].kind = "final"
       /\ pre.symlink[domain_name]
       /\ pre.cert[domain_name]
       /\ pre.loaded[domain_name] = pre.conf[domain_name])
        => /\ conf[domain_name] = pre.conf[domain_name]
           /\ symlink[domain_name] = pre.symlink[domain_name]

(***************************************************************************)
(* C5: in every state of a Setup call started on a domain without conf     *)
(* file, if the conf file on disk is the final (ssl) form then certbot     *)
(* certonly has returned success in that call; and in every state the      *)
(* daemon runs a final configuration only for a domain whose certificate   *)
(* exists.                                                                 *)
(***************************************************************************)
C5_FinalConfigOnlyAfterIssuance ==
    /\ (op = "setup"
          /\ pre.conf[domain_name] = Absent
          /\ conf[domain_name].kind = "final")
         => Logged("obtain", "certbot_certonly", "ok")
    /\ \A d \in Domains : loaded[d].kind = "final" => cert[d]

\* A Setup on an unprovisioned domain has put the final form on disk and the
\* daemon runs it.
C5_Witness ==
    /\ op = "setup"
    /\ pre.conf[domain_name] = Absent
    /\ ~pre.symlink[domain_name]
    /\ conf[domain_name].kind = "final"
    /\ loaded[domain_name].kind = "final"

(***************************************************************************)
(* C6: when a sub-step of the final step fails (the temp-file write, mv,   *)
(* nginx -t, restart), Setup returns the final-configuration failure and   *)
(* _rollback is not invoked: no rollback command runs, the conf file and   *)
(* the symlink are still there and so is the issued certificate.           *)
(***************************************************************************)
C6_FinalFailureReturnsWithoutRollback ==
    (op = "setup"
       /\ SubStepFailed("final", {"write_temp", "mv", "nginx_t", "restart"}))
        => /\ pc = "done"
           /\ result = "err_final"
           /\ pending = "none"
           /\ ~\E i \in 1..Len(log) : log[i].step = "rollback"
           /\ conf[domain_name] # Absent
           /\ symlink[domain_name]
           /\ cert[domain_name]

\* The temp-file write of the final step raised.
C6_Witness ==
    /\ pc = "done"
    /\ op = "setup"
    /\ Logged("final", "write_temp", "raise")

(***************************************************************************)
(* C7: Setup runs check_tools, validate, test_port (only if test_port),    *)
(* initial, obtain, final in that order, each at most once; every step but *)
(* the last one started has returned success; Setup returns plain success  *)
(* exactly when all of them ran and succeeded, otherwise the result it     *)
(* returns is that of the first failing step and no later step has run.    *)
(***************************************************************************)
C7_SetupRunsStepsInOrderAndShortCircuits ==
    op = "setup" =>
        /\ IsPrefix(ran, IF test_port
                         THEN <<"check_tools", "validate", "test_port",
                                "initial", "obtain", "final">>
                         ELSE <<"check_tools", "validate",
                                "initial", "obtain", "final">>)
        /\ Len(res) <= Len(ran)
        /\ Len(res) >= Len(ran) - 1
        /\ \A i \in 1..(Len(ran) - 1) : res[i] = "ok"
        /\ Returned =>
              /\ Len(res) = Len(ran)
              /\ result = res[Len(res)]
              /\ result = "ok" <=>
                    /\ Len(ran) = (IF test_port THEN 6 ELSE 5)
                    /\ \A i \in 1..Len(res) : res[i] = "ok"
        /\ (pc # "done") => Len(res) = Len(ran) - 1

\* A Setup with the port probe has run all six steps and returned success.
C7_Witness ==
    /\ pc = "done"
    /\ op = "setup"
    /\ test_port
    /\ result = "ok"
    /\ Len(ran) = 6

(***************************************************************************)
(* C8: when the tool check fails (a required tool is not on the path), in  *)
(* that call no configuration file is written or moved, no symlink is      *)
(* changed, the daemon is not reloaded, certbot is not invoked and no step *)
(* after check_tools is started; the result Setup returns is the failure   *)
(* of the first missing tool.                                              *)
(***************************************************************************)
C8_ToolCheckFailureShortCircuits ==
    (op = "setup" /\ pre.tools # {"nginx", "certbot"})
        => /\ ConfigUntouched
           /\ ~Invoked(ConfigCommands)
           /\ ran = <<"check_tools">>
           /\ Returned =>
                 result = IF "nginx" \notin pre.tools
                          THEN "err_nginx_missing"
                          ELSE "err_certbot_missing"

\* A Setup on a host that serves "a.io" and has lost certbot has installed
\* it and returned the missing-tool failure.
C8_Witness ==
    /\ pc = "done"
    /\ op = "setup"
    /\ pre.conf[ExampleCom].kind = "final"
    /\ result = "err_certbot_missing"
    /\ Logged("check_tools", "apt_install", "ok")

(***************************************************************************)
(* C9: when domain validation fails, Setup returns the invalid-domain      *)
(* failure and no configuration file is written, no symlink is changed,    *)
(* the daemon is not reloaded and certbot is not invoked.                  *)
(***************************************************************************)
C9_InvalidDomainShortCircuits ==
    /\ (op = "setup" /\ StepReturnedFailure("validate"))
         => /\ pc = "done"
            /\ result = "err_invalid_domain"
            /\ ConfigUntouched
            /\ ~Invoked(ConfigCommands)
    /\ (op = "setup" /\ domain_name = HyphenExampleCom)
         => /\ ConfigUntouched
            /\ ~Invoked(ConfigCommands)

\* A Setup for "-a.io" on a host that serves "a.io" has been rejected.
C9_Witness ==
    /\ pc = "done"
    /\ op = "setup"
    /\ domain_name = HyphenExampleCom
    /\ result = "err_invalid_domain"
    /\ conf[ExampleCom] # Absent

C11_ProbeGatesBootstrap ==
    (op = "setup" /\ test_port) =>
        /\ Logged("test_port", "curl", "404") =>
              /\ pc = "done"
              /\ result = "err_port_not_responding"
              /\ ran = <<"check_tools", "validate", "test_port">>
              /\ ~Invoked(ConfigCommands)
              /\ ConfigUntouched
              /\ tools = pre.tools
        /\ Logged("test_port", "curl", "200") =>
              /\ Len(ran) >= 4
              /\ ran[4] = "initial"
              /\ res[3] = "ok"
        /\ (\E i \in 1..Len(ran) : ran[i] = "initial") =>
              Logged("test_port", "curl", "200")

\* A probe of a provisioned host printed 404 and the call has returned.
C11_Witness ==
    /\ op = "setup"
    /\ test_port
    /\ Logged("test_port", "curl", "404")
    /\ pc = "done"
    /\ pre.conf[ExampleCom].kind = "final"
    /\ domain_name = ExampleCom

(***************************************************************************)
(* C12: once the probe command of a Setup call has been run,               *)
(* _test_port_forward has returned a result to the pipeline, whatever the  *)
(* command gave: success exactly when curl printed 200, a failure result   *)
(* for a different status, a non-zero exit, an expired timeout and for any *)
(* other error raised while running curl; the call is never left by an     *)
(* exception.                                                              *)
(* Violated: an error that is neither CalledProcessError nor               *)
(* TimeoutExpired leaves _test_port_forward and Setup as an exception.     *)
(***************************************************************************)
C12_ProbeAlwaysReturnsResult ==
    \A i \in 1..Len(log) :
        log[i].cmd = "curl" =>
            /\ Len(res) >= 3
            /\ res[3] = "ok" <=> log[i].out = "200"
            /\ res[3] # "ok" =>
                  res[3] \in {"err_port_not_responding", "err_port_not_accessible"}
            /\ result # "exception"

\* The call before this one was a Setup that failed the tool check and whose
\* install command completed successfully.
PreviousSetupInstalled == pre.prev # NoInstall

\* The tools that were missing when the call before this one started.
PreviouslyMissing == pre.prev.missing

\* The tool check of this call installs nothing and, once made, has passed.
ToolCheckPasses ==
    /\ pc \notin {"install_update", "install_tool"}
    /\ Len(res) >= 1 => res[1] = "ok"

(***************************************************************************)
(* C13: a Setup call that follows a Setup call which failed the tool check *)
(* and whose installation completed successfully passes the tool check,    *)
(* whether one or both of nginx and certbot had been missing.              *)
(* Violated: with both missing only nginx is installed, and the next call  *)
(* fails the tool check for certbot.                                       *)
(***************************************************************************)
C13_NextSetupPassesToolCheck ==
    (op = "setup" /\ PreviousSetupInstalled) => ToolCheckPasses

(***************************************************************************)
(* C13 as amended: the Setup call that follows passes the tool check when  *)
(* exactly one tool had been missing; when both had been missing it finds  *)
(* certbot missing, installs it and fails the tool check for certbot.      *)
(***************************************************************************)
C13_NextSetupPassesToolCheckWhenOneMissing ==
    (op = "setup" /\ PreviousSetupInstalled) =>
        /\ Cardinality(PreviouslyMissing) = 1 => ToolCheckPasses
        /\ Cardinality(PreviouslyMissing) = 2 =>
              /\ pre.prev.tool = "nginx"
              /\ pre.tools = {"nginx"}
              /\ Len(res) >= 1 => res[1] = "err_certbot_missing"
              /\ pc = "done" => result \in {"err_certbot_missing", "exception"}
              /\ result = "err_certbot_missing" => Invoked({"apt_install"})

\* certbot alone had been missing, was installed, and the tool check of the
\* following Setup call has passed.
C13_Witness ==
    /\ op = "setup"
    /\ PreviousSetupInstalled
    /\ PreviouslyMissing = {"certbot"}
    /\ pre.prev.tool = "certbot"
    /\ Len(res) >= 1
    /\ res[1] = "ok"

\* The commands of delete_nginx_config.
DeleteConfigCommands == {"rm_conf", "rm_symlink", "nginx_t", "restart"}

NothingToRemove ==
    /\ op = "remove"
    /\ pre.conf[domain_name] = Absent
    /\ ~pre.symlink[domain_name]
    /\ ~pre.cert[domain_name]

C17_NoExceptionCrossesBoundary ==
    pc = "done" => result # "exception"

(***************************************************************************)
(* C18: once a step has invoked _rollback and the call is over, the call   *)
(* has returned that step's own failure result, whatever the rm commands   *)
(* and the restart of _rollback gave: exit zero, exit non-zero, or an      *)
(* error raised when running them.                                         *)
(* Violated: an error raised by a command of _rollback leaves the except   *)
(* handler of the step, and the call, as an exception.                     *)
(***************************************************************************)
C18_RollbackNeverFailsCaller ==
    (pending # "none" /\ pc = "done") =>
        /\ result = pending
        /\ res[Len(res)] = pending

(***************************************************************************)
(* C19: while two Setup calls for different domains run interleaved at     *)
(* sub-step granularity, neither touches a file of the other: a conf file  *)
(* that exists holds the configuration of its own domain, and so does what *)
(* the daemon has loaded for the domain.                                   *)
(* Violated: both calls write and move the same temp_nginx.conf, so one    *)
(* call's mv installs the configuration the other call wrote.              *)
(***************************************************************************)
C19_InterleavedSetupsDoNotInterfere ==
    \A d \in Domains :
        /\ conf[d] # Absent => conf[d].dom = d
        /\ loaded[d] # Absent => loaded[d].dom = d

\* Position of the last dot of s, 0 if s has none.
LastDot(s) ==
    IF \E i \in 1..Len(s) : s[i] = Dot
    THEN CHOOSE i \in 1..Len(s) : s[i] = Dot /\ \A j \in (i + 1)..Len(s) : s[j] # Dot
    ELSE 0

\* s is a hostname: two or more labels separated by dots, every label
\* non-empty, made of letters, digits and hyphens, neither starting nor
\* ending with a hyphen, the last label of two or more letters only.
IsHostname(s) ==
    /\ \A i \in 1..Len(s) : IsLabelChar(s[i]) \/ s[i] = Dot
    /\ LastDot(s) # 0
    /\ Len(s) >= 1 /\ s[1] # Dot /\ s[Len(s)] # Dot
    /\ \A i \in 1..(Len(s) - 1) : ~(s[i] = Dot /\ s[i + 1] = Dot)
    /\ s[1] # Hyphen /\ s[Len(s)] # Hyphen
    /\ \A i \in 1..(Len(s) - 1) : /\ ~(s[i] = Hyphen /\ s[i + 1] = Dot)
                                  /\ ~(s[i] = Dot /\ s[i + 1] = Hyphen)
    /\ Len(s) - LastDot(s) >= 2
    /\ \A i \in (LastDot(s) + 1)..Len(s) : IsLetter(s[i])

(***************************************************************************)
(* C20: the validation step of a Setup call returns success exactly for    *)
(* the strings that are hostnames, and the invalid-domain failure for      *)
(* every other string, a string with any other character, a trailing line  *)
(* break among them, included.                                             *)
(* Violated: a hostname followed by one line break is accepted, because    *)
(* `$` of the pattern also matches before a final line break.              *)
(***************************************************************************)
C20_ValidationAcceptsExactlyHostnames ==
    (op = "setup" /\ Len(res) >= 2 /\ ran[2] = "validate") =>
        /\ res[2] = "ok" <=> IsHostname(domain_name)
        /\ res[2] # "ok" => res[2] = "err_invalid_domain"

\* openssl printed a timestamp that strptime parses.
ParseableExpiry ==
    /\ openssl.kind = "output"
    /\ Len(openssl.fields) >= 2
    /\ Parseable(openssl.fields[2])

(***************************************************************************)
(* C21: when openssl printed a parseable expiry timestamp, the result of   *)
(* check_ssl_expiry is a success, and is_active is true exactly when the   *)
(* expiry is at or after the reading of the clock: an expiry equal to now  *)
(* is active, an expiry before now is not.                                 *)
(***************************************************************************)
C21_ActiveIffExpiryNotBeforeNow ==
    (check.called /\ ParseableExpiry) =>
        /\ check.success
        /\ check.is_active <=> Strptime(openssl.fields[2]) * TicksPerUnit >= now
        /\ Strptime(openssl.fields[2]) * TicksPerUnit = now => check.is_active
        /\ Strptime(openssl.fields[2]) * TicksPerUnit < now => ~check.is_active

\* A certificate that expires on Feb 1 was checked at that very instant and
\* is reported active.
C21_Witness ==
    /\ check.called
    /\ ParseableExpiry
    /\ openssl.fields[2] = [mon |-> "Feb", day |-> 1, zone |-> "GMT"]
    /\ now = 32 * TicksPerUnit
    /\ check.success
    /\ check.is_active

(***************************************************************************)
(* C22: check_ssl_expiry returns a failure with its own reason for each    *)
(* failure mode: the tool-missing error when openssl cannot be found, the  *)
(* file-not-found error when openssl exits non-zero, and the parse error   *)
(* for every output from which no expiry timestamp can be parsed, a        *)
(* malformed date and an output without "=" alike.                         *)
(* Violated: for an output without "=" the IndexError of split("=")[1] is  *)
(* caught by the generic handler and reported as an unexpected error.      *)
(***************************************************************************)
C22_EachFailureModeHasItsReason ==
    check.called =>
        /\ (openssl.kind = "raise" /\ openssl.exc = "FileNotFoundError") =>
              check = Failure("err_openssl_missing")
        /\ (openssl.kind = "raise" /\ openssl.exc = "CalledProcessError") =>
              check = Failure("err_cert_file")
        /\ (openssl.kind = "output" /\ ~ParseableExpiry) =>
              check = Failure("err_parse")

(***************************************************************************)
(* C23: whenever main has ended, it has returned an exit code: 0 exactly   *)
(* when the operation of the subcommand succeeded, 1 when the operation    *)
(* failed, when no subcommand was given, when the command is unknown and   *)
(* when an interrupt or another exception was raised anywhere in main,     *)
(* the parsing of the arguments included.                                  *)
(* Violated: parse_args is called before the try block, so an interrupt    *)
(* during parsing leaves main, and for an unknown command argparse exits   *)
(* with status 2.                                                          *)
(***************************************************************************)
C23_MainReturnsZeroOrOne ==
    main.pc = "done" =>
        /\ main.how = "return"
        /\ main.code \in {0, 1}
        /\ main.code = 0 <=> Succeeded(main.outcome)

(***************************************************************************)
(* C24: the HTTP block of a final configuration on disk redirects to HTTPS *)
(* when it was written with ssl_redirect true, and when it was written     *)
(* with ssl_redirect false it has the locations of the bootstrap           *)
(* configuration: the challenge path served from the webroot and every     *)
(* other path proxied to the forward port.                                 *)
(* Violated: with ssl_redirect false the HTTP block holds nothing but the  *)
(* listen and server_name lines.                                           *)
(***************************************************************************)
C24_FinalHttpBlockRedirectsOrServes ==
    \A d \in Domains :
        conf[d].kind = "final" =>
            /\ conf[d].redirect => "return_301" \in conf[d].http
            /\ ~conf[d].redirect => conf[d].http = InitialConf(d).http

(***************************************************************************)
(* C25: whenever Config has loaded, whatever the environment variables are *)
(* set to, its HTTP port, HTTPS port and probe timeout are positive        *)
(* integers.                                                               *)
(* Violated: int() of the override is taken as it is, so "0" and "-8" load *)
(* as 0 and -8.                                                            *)
(***************************************************************************)
C25_LoadedPortsAndTimeoutArePositive ==
    config.state = "loaded" =>
        /\ config.DEFAULT_HTTP_PORT \in Nat \ {0}
        /\ config.DEFAULT_HTTPS_PORT \in Nat \ {0}
        /\ config.PORT_TEST_TIMEOUT \in Nat \ {0}

\* The commands _rollback has run in this call, in the order they were run.
RollbackLog == SelectSeq(log, LAMBDA e : e.step = "rollback")

\* The place of a command in _rollback.
RollbackRank(cmd) ==
    CASE cmd = "rm_conf" -> 1
      [] cmd = "rm_symlink" -> 2
      [] OTHER -> 3

\* _rollback was invoked in this call and no command of it raised an error.
RollbackRanThrough ==
    /\ pending # "none"
    /\ pc = "done"
    /\ \A i \in 1..Len(RollbackLog) : RollbackLog[i].out # "raise"

\* At every state: the commands of _rollback are run in the order rm conf
\* file, rm symlink, restart, each at most once, and once _rollback is through
\* the restart has been requested exactly once, as its last command.
RollbackOrder ==
    /\ \A i, j \in 1..Len(RollbackLog) :
          i < j => RollbackRank(RollbackLog[i].cmd) < RollbackRank(RollbackLog[j].cmd)
    /\ RollbackLog # <<>> => pending # "none"
    /\ RollbackRanThrough =>
          /\ RollbackLog # <<>>
          /\ RollbackLog[Len(RollbackLog)].cmd = "restart"
          /\ log[Len(log)] = RollbackLog[Len(RollbackLog)]

\* At every step: _rollback runs rm on the conf file exactly when the file
\* exists, rm on the symlink exactly when the symlink exists, and the restart
\* whatever the files are and whatever the rm commands gave.
RollbackStep ==
    /\ pc = "rb_conf" =>
          IF conf[domain_name] # Absent
          THEN Len(log') = Len(log) + 1 /\ log'[Len(log')].cmd = "rm_conf"
          ELSE log' = log /\ pc' = "rb_link"
    /\ pc = "rb_link" =>
          IF symlink[domain_name]
          THEN Len(log') = Len(log) + 1 /\ log'[Len(log')].cmd = "rm_symlink"
          ELSE log' = log /\ pc' = "rb_restart"
    /\ (pc = "rb_conf" /\ log' # log /\ log'[Len(log')].out # "raise") => pc' = "rb_link"
    /\ (pc = "rb_link" /\ log' # log /\ log'[Len(log')].out # "raise") => pc' = "rb_restart"
    /\ pc = "rb_restart" =>
          /\ Len(log') = Len(log) + 1
          /\ log'[Len(log')].step = "rollback"
          /\ log'[Len(log')].cmd = "restart"

(***************************************************************************)
(* C26: every invocation of _rollback runs rm on the conf file only if the *)
(* file exists, rm on the symlink only if the symlink exists, and then     *)
(* requests the restart exactly once, after the deletions, also when       *)
(* neither file existed and when an rm exited non-zero.                    *)
(***************************************************************************)
C26_RollbackDeletesThenReloadsOnce ==
    [](RollbackOrder) /\ [][RollbackStep]_vars

\* A rollback whose rm of the conf file exited non-zero has requested the
\* restart and the step has returned.
C26_Witness ==
    /\ RollbackRanThrough
    /\ Logged("rollback", "rm_conf", "fail")
    /\ \E i \in 1..Len(RollbackLog) : RollbackLog[i].cmd = "restart"
    /\ result = pending

\* A rollback that found neither the conf file nor the symlink has requested
\* the restart.
C26_WitnessNoFiles ==
    /\ RollbackRanThrough
    /\ Len(RollbackLog) = 1
    /\ RollbackLog[1].cmd = "restart"


\* Every delete command _rollback has run so far exited with status zero.
RollbackDeletesSucceeded ==
    \A i \in 1..Len(log) :
        log[i].cmd \in {"rm_conf", "rm_symlink"} => log[i].out = "ok"

\* C27: Rollback is idempotent. From any state of the domain's conf file and
\* symlink, when _rollback is run a second time right after a first run and
\* the delete commands of both runs succeed, the conf file and the symlink
\* stay, all through the second run and at its end, exactly as the first run
\* left them: two runs leave the file state one run leaves.
C27_RollbackTwiceLeavesFilesAsOnce ==
    (op = "rollback" /\ calls = 2 /\ RollbackDeletesSucceeded)
        => /\ conf = pre.conf
           /\ symlink = pre.symlink
           /\ conf[domain_name] = Absent
           /\ ~symlink[domain_name]

\* The first run deleted both the conf file and the symlink, and the second
\* run has returned.
C27_Witness ==
    /\ op = "rollback"
    /\ calls = 2
    /\ pc = "done"
    /\ result = "returned"
    /\ RollbackDeletesSucceeded
    /\ Logged("rollback", "rm_conf", "ok")
    /\ Logged("rollback", "rm_symlink", "ok")


\* This step invokes `certbot certonly`.
CertbotIssuance ==
    /\ Len(log') = Len(log) + 1
    /\ log'[Len(log')].cmd = "certbot_certonly"

\* The bootstrap conf file of the domain is on disk and enabled, and in this
\* call `nginx -t` has passed and the restart that followed has succeeded and
\* loaded that file.
BootstrapServed ==
    /\ conf[domain_name] = InitialConf(domain_name)
    /\ symlink[domain_name]
    /\ loaded[domain_name] = InitialConf(domain_name)
    /\ Logged("initial", "nginx_t", "ok")
    /\ Logged("initial", "restart", "ok")

\* C28: within a Setup call `certbot certonly` is invoked at most once, and
\* only when the bootstrap conf file is on disk, the enabled symlink points at
\* it, and in that same call the daemon has passed `nginx -t` and has been
\* restarted successfully. Only a Setup call invokes it.
C28_IssuanceOnceAndOnlyOnServedBootstrap ==
    [][CertbotIssuance =>
          /\ op = "setup"
          /\ BootstrapServed
          /\ ~Invoked({"certbot_certonly"})]_vars

\* A Setup call on a host that already served the final configuration of the
\* domain has invoked the issuance, once, over the bootstrap configuration.
C28_Witness ==
    /\ op = "setup"
    /\ pre.conf[domain_name].kind = "final"
    /\ BootstrapServed
    /\ Cardinality({i \in 1..Len(log) : log[i].cmd = "certbot_certonly"}) = 1


\* The commands that change the conf file or the symlink of the domain.
ChangeCommands == {"mv", "ln", "rm_conf", "rm_symlink"}

\* The k-th command of this call changed the conf file or the symlink.
Changed(k) == log[k].cmd \in ChangeCommands /\ log[k].out = "ok"

\* `nginx -t` has passed in this call and no command has changed the conf
\* file or the symlink since.
ValidatedSinceLastChange ==
    \E j \in 1..Len(log) :
        /\ log[j].cmd = "nginx_t"
        /\ log[j].out = "ok"
        /\ \A k \in (j + 1)..Len(log) : ~Changed(k)

\* This call has not changed the conf file or the symlink so far: the
\* configuration on disk is the one the call found.
UnchangedSoFar == \A k \in 1..Len(log) : ~Changed(k)

\* This step requests `systemctl restart nginx`.
RestartRequested ==
    /\ Len(log') = Len(log) + 1
    /\ log'[Len(log')].cmd = "restart"

\* C29 as stated, the restart of _rollback included: a restart is requested
\* only when `nginx -t` has passed since the last change to the conf file or
\* symlink (a call that has changed nothing yet is given the configuration it
\* found as validated).
C29_EveryRestartFollowsValidation ==
    [][RestartRequested => (ValidatedSinceLastChange \/ UnchangedSoFar)]_vars

\* C29, amended: in any Setup or Remove call every restart requested outside
\* _rollback directly follows a `nginx -t` of the same step that passed, with
\* no change to the conf file or symlink in between; the restart of _rollback
\* is requested without any validation, whatever _rollback deleted.
C29_RestartOutsideRollbackFollowsValidation ==
    [][RestartRequested =>
          IF log'[Len(log')].step = "rollback"
          THEN pc = "rb_restart"
          ELSE /\ ValidatedSinceLastChange
               /\ log[Len(log)] = [step |-> log'[Len(log')].step,
                                   cmd |-> "nginx_t", out |-> "ok"]]_vars

\* The bootstrap step validated the configuration and requested a restart
\* that failed; _rollback then deleted the conf file and the symlink and
\* requested its restart with nothing validated since.
C29_Witness ==
    /\ Logged("initial", "nginx_t", "ok")
    /\ Logged("initial", "restart", "fail")
    /\ Logged("rollback", "rm_conf", "ok")
    /\ Logged("rollback", "rm_symlink", "ok")
    /\ log[Len(log)].step = "rollback"
    /\ log[Len(log)].cmd = "restart"
    /\ ~ValidatedSinceLastChange


\* The commands that delete a file of the domain or invoke the certificate
\* client for it.
DeleteOrCertbotCommands == {"rm_conf", "rm_symlink", "certbot_certonly", "certbot_delete"}

\* This step runs a command that deletes a file of the domain or invokes the
\* certificate client.
DeletesOrCallsCertbot ==
    /\ Len(log') = Len(log) + 1
    /\ log'[Len(log')].cmd \in DeleteOrCertbotCommands

\* The domain name of this call has been through _validate_domain_name in
\* this call and has passed it.
DomainValidated ==
    /\ \E i \in 1..Len(ran) : ran[i] = "validate"
    /\ ValidateDomainName(domain_name) = "ok"

\* C30: an operation deletes a file of a domain or invokes the certificate
\* client for it only after the domain name has passed domain validation; in
\* particular remove_ssl_certificate issues no delete of a conf file, symlink
\* or certificate for a domain name that fails the hostname grammar.
C30_DeletesAndCertbotOnlyAfterValidation ==
    [][DeletesOrCallsCertbot => DomainValidated]_vars


\* remove_ssl_certificate has invoked `certbot delete` for a domain name that
\* fails the hostname grammar.
RemoveCalledCertbotForInvalidDomain ==
    /\ op = "remove"
    /\ ValidateDomainName(domain_name) = "err_invalid_domain"
    /\ Invoked({"certbot_delete"})


\* C31: after any Setup call has returned, with success or with a failure
\* result, temp_nginx.conf does not exist in the working directory: it has
\* been moved to the conf file of the domain or removed by the failure path.
C31_TempFileGoneAfterSetupReturns ==
    (op = "setup" /\ Returned) => temp = Absent

\* A Setup call has returned the bootstrap failure after its `mv` exited
\* non-zero, and the temp file it wrote is still in the working directory.
SetupReturnedLeavingTempFile ==
    /\ op = "setup"
    /\ Returned
    /\ result = "err_initial"
    /\ Logged("initial", "write_temp", "ok")
    /\ Logged("initial", "mv", "fail")
    /\ temp = InitialConf(domain_name)

============================================================================
